---- MODULE Spec2Model ----
(***************************************************************************)
(* Model of nala/learning/evaluators.py: MentionLevelEvaluator and         *)
(* DocumentLevelRelationEvaluator.                                         *)
(*                                                                         *)
(* A corpus is the flattened sequence of the parts of its documents (the   *)
(* mention evaluator only iterates "for doc in dataset: for part in doc"). *)
(* A part holds two lists of entities, gold (part.annotations) and         *)
(* predicted (part.predicted_annotations).  Python floats are modelled by  *)
(* exact normalised fractions plus NaN; console output is not modelled.    *)
(***************************************************************************)
EXTENDS Integers, Sequences, FiniteSets

VARIABLES
    corpus,             \* dataset of the mention evaluator: sequence of parts
    strictness,         \* MentionLevelEvaluator.strictness
    subclass_analysis,  \* MentionLevelEvaluator.subclass_analysis
    equality_operator,  \* Entity.equality_operator, the class-wide flag
    results,            \* outcomes of the sequential evaluate calls so far
    rel_corpus,         \* dataset of the relation evaluator: sequence of documents
    match_case,         \* DocumentLevelRelationEvaluator.match_case
    rel_results,        \* outcomes of the relation evaluate calls so far
    evaluator,          \* the class of the evaluator that was constructed
    call                \* the two interleaved evaluate calls (frames)

vars == <<corpus, strictness, subclass_analysis, equality_operator, results,
          rel_corpus, match_case, rel_results, evaluator, call>>

----------------------------------------------------------------------------
(* Bounds of the model *)

MaxSpans == 3       \* spans (gold + predicted) in a corpus
MaxParts == 2       \* parts in a corpus
MaxCalls == 2       \* sequential evaluate calls on one corpus
MaxRels == 3        \* relations (gold + predicted) in a relation corpus
MaxDocs == 2        \* documents in a relation corpus
MaxConcSpans == 3   \* spans in a corpus evaluated by two interleaved calls
MaxConcParts == 1   \* parts in a corpus evaluated by two interleaved calls

(* Input domains *)

\* the offsets of the spans of the worked scenarios: (0,5), (0,10), (5,15)
Offsets == {<<0, 5>>, <<0, 10>>, <<5, 15>>}
Subclasses == {"X", "Y"}
Entities == [start : {o[1] : o \in Offsets}, end : {o[2] : o \in Offsets},
             subclass : Subclasses]
SpanEntities == {e \in Entities : <<e.start, e.end>> \in Offsets}
Strictnesses == {"exact", "overlapping", "half_overlapping", "fuzzy"}
EqualityModes == {"exact", "overlapping"}

----------------------------------------------------------------------------
(* Floats: a finite value is a fraction n/d in lowest terms with d > 0;    *)
(* kind "nan" is float('NaN'); kind "zde" stands for a ZeroDivisionError   *)
(* that was raised and not caught.                                         *)

RECURSIVE Gcd(_, _)
Gcd(a, b) == IF b = 0 THEN a ELSE Gcd(b, a % b)

Abs(x) == IF x < 0 THEN -x ELSE x

NaN == [kind |-> "nan", n |-> 0, d |-> 1]
ZeroDivisionError == [kind |-> "zde", n |-> 0, d |-> 1]

Frac(n, d) ==
    LET g == Gcd(Abs(n), Abs(d))
        s == IF d < 0 THEN -1 ELSE 1
    IN  [kind |-> "num", n |-> (s * n) \div g, d |-> (s * d) \div g]

Num(i) == Frac(i, 1)

Raised(a, b) == a.kind = "zde" \/ b.kind = "zde"
AnyNaN(a, b) == a.kind = "nan" \/ b.kind = "nan"

Mul(a, b) ==
    IF Raised(a, b) THEN ZeroDivisionError
    ELSE IF AnyNaN(a, b) THEN NaN
    ELSE Frac(a.n * b.n, a.d * b.d)

Add(a, b) ==
    IF Raised(a, b) THEN ZeroDivisionError
    ELSE IF AnyNaN(a, b) THEN NaN
    ELSE Frac(a.n * b.d + b.n * a.d, a.d * b.d)

\* Python's "/": a zero divisor raises ZeroDivisionError (checked before the
\* operands are looked at, so NaN / 0 raises as well); NaN operands give NaN
Div(a, b) ==
    IF Raised(a, b) THEN ZeroDivisionError
    ELSE IF b.kind = "num" /\ b.n = 0 THEN ZeroDivisionError
    ELSE IF AnyNaN(a, b) THEN NaN
    ELSE Frac(a.n * b.d, a.d * b.n)

----------------------------------------------------------------------------
(* Entity comparison.  Entity.__eq__ consults the class attribute          *)
(* Entity.equality_operator on every comparison.                           *)

\* 'exact': startA = startB and endA = endB
ExactMatch(a, b) == a.start = b.start /\ a.end = b.end

\* 'overlapping': the ranges intersect
Overlaps(a, b) == a.start < b.end /\ b.start < a.end

EntityEq(mode, a, b) ==
    IF mode = "exact" THEN ExactMatch(a, b) ELSE Overlaps(a, b)

\* "x in lst" where x is not itself an element of lst (a predicted entity
\* looked up in the gold list, or the reverse): one __eq__ per element
InList(mode, x, lst) == \E k \in 1..Len(lst) : EntityEq(mode, lst[k], x)

\* "lst[i] in refs" where refs holds references to elements of lst: Python's
\* list membership accepts an element that is the same object before it
\* calls __eq__
InRefs(mode, i, refs, lst) ==
    \E k \in 1..Len(refs) : refs[k] = i \/ EntityEq(mode, lst[refs[k]], lst[i])

----------------------------------------------------------------------------
(* MentionLevelEvaluator *)

\* the try/except of lines 148-151 left out
safe_division_uncaught(nominator, denominator) == Div(nominator, denominator)

safe_division(nominator, denominator) ==
    LET q == Div(nominator, denominator)
    IN  IF q.kind = "zde" THEN NaN ELSE q

\* the tuple returned by __calc_measures, or the exception it raises
Measures(tp, fp, fn, fp_overlap, fn_overlap, precision, recall) ==
    LET f_measure == Mul(Num(2), safe_division(Mul(precision, recall),
                                               Add(precision, recall)))
    IN  IF precision.kind = "zde" \/ recall.kind = "zde" \/ f_measure.kind = "zde"
        THEN [raised |-> "ZeroDivisionError", value |-> <<>>]
        ELSE [raised |-> "none",
              value |-> <<[tp |-> tp, fp |-> fp, fn |-> fn,
                           fp_overlap |-> fp_overlap, fn_overlap |-> fn_overlap,
                           precision |-> precision, recall |-> recall,
                           f_measure |-> f_measure]>>]

\* the final else of lines 169-170 left out: any other strictness counts as
\* 'exact'
calc_measures_unchecked(s, tp, fp, fn, fp_overlap, fn_overlap) ==
    Measures(tp, fp, fn, fp_overlap, fn_overlap,
             safe_division(Num(tp), Num(tp + fp)),
             safe_division(Num(tp), Num(tp + fn)))

calc_measures(s, tp, fp, fn, fp_overlap, fn_overlap) ==
    IF s = "exact" THEN
        Measures(tp, fp, fn, fp_overlap, fn_overlap,
                 safe_division(Num(tp), Num(tp + fp)),
                 safe_division(Num(tp), Num(tp + fn)))
    ELSE IF s = "overlapping" THEN
        LET fp2 == fp - fp_overlap
            fn2 == fn - fn_overlap
        IN  Measures(tp, fp2, fn2, fp_overlap, fn_overlap,
                     safe_division(Num(tp + fp_overlap + fn_overlap),
                                   Num(tp + fp2 + fp_overlap + fn_overlap)),
                     safe_division(Num(tp + fp_overlap + fn_overlap),
                                   Num(tp + fn2 + fp_overlap + fn_overlap)))
    ELSE IF s = "half_overlapping" THEN
        LET fp2 == fp - fp_overlap
            fn2 == fn - fn_overlap
            half == Div(Num(fp_overlap + fn_overlap), Num(2))
        IN  Measures(tp, fp2, fn2, fp_overlap, fn_overlap,
                     safe_division(Add(Num(tp), half),
                                   Num(tp + fp2 + fp_overlap + fn_overlap)),
                     safe_division(Add(Num(tp), half),
                                   Num(tp + fn2 + fp_overlap + fn_overlap)))
    ELSE [raised |-> "ValueError", value |-> <<>>]

\* lines 75-76: the subclasses of all gold and all predicted annotations
DiscoveredSubclasses(c) ==
    UNION {{c[p].gold[k].subclass : k \in 1..Len(c[p].gold)} : p \in 1..Len(c)}
    \cup
    UNION {{c[p].pred[k].subclass : k \in 1..Len(c[p].pred)} : p \in 1..Len(c)}

ZeroCounts == [tp |-> 0, fp |-> 0, fn |-> 0, fp_overlap |-> 0, fn_overlap |-> 0]

\* the assignments of lines 94, 111 and 122 left out: the flag stays as it is
ExactPassModeStale(flag) == flag
OverlapPassModeStale(flag) == flag
ExclusivityPassModeStale(flag) == flag

\* line 94: the mode in force during the exact-identity pass of a part
ExactPassMode(flag) == "exact"
\* line 111: the mode in force during the overlap pass
OverlapPassMode(flag) == "overlapping"
\* line 122: the mode in force during the overlap-exclusivity pass
ExclusivityPassMode(flag) == "exact"

\* lines 95-103: the predicted entities counted tp
TruePositives(mode, part) ==
    {i \in 1..Len(part.pred) : InList(mode, part.pred[i], part.gold)}
\* lines 95-103: the predicted entities counted fp
FalsePositives(mode, part) ==
    {i \in 1..Len(part.pred) : ~InList(mode, part.pred[i], part.gold)}
\* lines 105-109: the gold entities counted fn
FalseNegatives(mode, part) ==
    {g \in 1..Len(part.gold) : ~InList(mode, part.gold[g], part.pred)}

\* lines 112-116: the (gold, predicted) index pairs in loop order
PairSeq(part) ==
    [k \in 1..(Len(part.gold) * Len(part.pred)) |->
        <<((k - 1) \div Len(part.pred)) + 1, ((k - 1) % Len(part.pred)) + 1>>]

\* lines 112-120: the pairs that compare equal in the overlap pass; sc = ""
\* builds overlap_real / overlap_predicted, a subclass sc builds
\* overlap_subclass_real[sc] / overlap_subclass_predicted[sc]
OverlapPairs(mode, part, sc) ==
    LET Hit(pr) == /\ EntityEq(mode, part.gold[pr[1]], part.pred[pr[2]])
                   /\ sc # "" => /\ part.gold[pr[1]].subclass = part.pred[pr[2]].subclass
                                 /\ part.gold[pr[1]].subclass = sc
    IN  SelectSeq(PairSeq(part), Hit)

Firsts(ps) == [k \in 1..Len(ps) |-> ps[k][1]]
Seconds(ps) == [k \in 1..Len(ps) |-> ps[k][2]]

\* line 123 (and 128-130 for a subclass): the predicted entities counted
\* into fp_overlap
FpOverlap(mode, part, overlap_predicted, sc) ==
    {i \in 1..Len(part.pred) :
        /\ InRefs(mode, i, overlap_predicted, part.pred)
        /\ sc # "" => part.pred[i].subclass = sc}

\* line 124 (and 131-133 for a subclass): the gold entities counted into
\* fn_overlap
FnOverlap(mode, part, overlap_real, sc) ==
    {g \in 1..Len(part.gold) :
        /\ InRefs(mode, g, overlap_real, part.gold)
        /\ sc # "" => part.gold[g].subclass = sc}

\* the increments of lines 99, 103 and 109 made for every subclass
OfSubclassUnfiltered(lst, idx, sc) == idx

\* lines 98-99, 102-103, 108-109: the increments that go to subclass sc
OfSubclass(lst, idx, sc) == {i \in idx : sc # "" => lst[i].subclass = sc}

\* one iteration of "for part in doc" (lines 87-133): the increments of the
\* five counters, for the totals (sc = "") or for subclass sc
PartCounts(part, flag, sc) ==
    LET m1 == ExactPassMode(flag)
        m2 == OverlapPassMode(m1)
        m3 == ExclusivityPassMode(m2)
        ov == OverlapPairs(m2, part, sc)
    IN  [tp |-> Cardinality(OfSubclass(part.pred, TruePositives(m1, part), sc)),
         fp |-> Cardinality(OfSubclass(part.pred, FalsePositives(m1, part), sc)),
         fn |-> Cardinality(OfSubclass(part.gold, FalseNegatives(m1, part), sc)),
         fp_overlap |-> Cardinality(FpOverlap(m3, part, Seconds(ov), sc)),
         fn_overlap |-> Cardinality(FnOverlap(m3, part, Firsts(ov), sc))]

\* the flag a part leaves behind (line 122)
PartFlag(flag) == ExclusivityPassMode(OverlapPassMode(ExactPassMode(flag)))

PlusCounts(a, b) ==
    [tp |-> a.tp + b.tp, fp |-> a.fp + b.fp, fn |-> a.fn + b.fn,
     fp_overlap |-> a.fp_overlap + b.fp_overlap,
     fn_overlap |-> a.fn_overlap + b.fn_overlap]

\* lines 81-133: the loop over the parts, from part k on
RECURSIVE CountFrom(_, _, _, _)
CountFrom(c, k, flag, sc) ==
    IF k > Len(c) THEN ZeroCounts
    ELSE PlusCounts(PartCounts(c[k], flag, sc),
                    CountFrom(c, k + 1, PartFlag(flag), sc))

\* the flag after the loop over the parts
FlagAfter(c, flag) == IF Len(c) = 0 THEN flag ELSE PartFlag(flag)

\* MentionLevelEvaluator.evaluate: what it returns or raises
evaluate(c, s, sa, flag) ==
    LET t == CountFrom(c, 1, flag, "")
        subclasses == DiscoveredSubclasses(c)
        subclass_counts == [sc \in subclasses |-> CountFrom(c, 1, flag, sc)]
        SubMeasures(sc) ==
            LET k == subclass_counts[sc]
            IN  calc_measures(s, k.tp, k.fp, k.fn, k.fp_overlap, k.fn_overlap)
        total == calc_measures(s, t.tp, t.fp, t.fn, t.fp_overlap, t.fn_overlap)
        subraise == IF sa THEN {SubMeasures(sc).raised : sc \in subclasses} \ {"none"}
                    ELSE {}
        raised == IF subraise # {} THEN CHOOSE r \in subraise : TRUE
                  ELSE total.raised
    IN  [raised |-> raised,
         measures |-> IF raised = "none" THEN total.value ELSE <<>>,
         subclass_counts |-> IF sa /\ raised = "none" THEN <<subclass_counts>>
                             ELSE <<>>]

----------------------------------------------------------------------------
(* DocumentLevelRelationEvaluator.  A relation is the string the document  *)
(* hands out for a unique pair of entity texts, here a sequence of         *)
(* characters.                                                             *)

LowerChar(ch) == CASE ch = "A" -> "a" [] ch = "B" -> "b" [] OTHER -> ch

\* str.lower()
lower(x) == [k \in 1..Len(x) |-> LowerChar(x[k])]

LowerAll(lst) == [k \in 1..Len(lst) |-> lower(lst[k])]

\* "x in lst" for strings
InStrings(x, lst) == \E k \in 1..Len(lst) : lst[k] = x

rel_safe_division(nominator, denominator) ==
    LET q == Div(nominator, denominator)
    IN  IF q.kind = "zde" THEN NaN ELSE q

rel_calc_measures(tp, fp, fn) ==
    LET precision == rel_safe_division(Num(tp), Num(tp + fp))
        recall == rel_safe_division(Num(tp), Num(tp + fn))
        f_measure == Mul(Num(2), rel_safe_division(Mul(precision, recall),
                                                   Add(precision, recall)))
    IN  [precision |-> precision, recall |-> recall, f_measure |-> f_measure]

\* lines 245-247: the lists that are compared
Compared(lst, mc) == IF mc THEN LowerAll(lst) ELSE lst

\* lines 243-255: one iteration of "for key in true_relations.keys()"
DocCounts(doc, mc) ==
    LET predicted == Compared(doc.predicted, mc)
        actual == Compared(doc.actual, mc)
    IN  [tp |-> Cardinality({i \in 1..Len(predicted) : InStrings(predicted[i], actual)}),
         fp |-> Cardinality({i \in 1..Len(predicted) : ~InStrings(predicted[i], actual)}),
         fn |-> Cardinality({i \in 1..Len(actual) : ~InStrings(actual[i], predicted)})]

RECURSIVE RelCountFrom(_, _, _)
RelCountFrom(c, k, mc) ==
    IF k > Len(c) THEN [tp |-> 0, fp |-> 0, fn |-> 0]
    ELSE LET a == DocCounts(c[k], mc)
             b == RelCountFrom(c, k + 1, mc)
         IN  [tp |-> a.tp + b.tp, fp |-> a.fp + b.fp, fn |-> a.fn + b.fn]

\* DocumentLevelRelationEvaluator.evaluate
rel_evaluate(c, mc) ==
    LET t == RelCountFrom(c, 1, mc)
        m == rel_calc_measures(t.tp, t.fp, t.fn)
    IN  IF m.precision.kind = "zde" \/ m.recall.kind = "zde" \/ m.f_measure.kind = "zde"
        THEN [raised |-> "ZeroDivisionError", value |-> <<>>]
        ELSE [raised |-> "none",
              value |-> <<[tp |-> t.tp, fp |-> t.fp, fn |-> t.fn,
                           precision |-> m.precision, recall |-> m.recall,
                           f_measure |-> m.f_measure]>>]

----------------------------------------------------------------------------
(* The datasets the evaluators are run on *)

SeqsOfLen(S, n) == [1..n -> S]

\* parts holding exactly k entities
PartsWith(k) ==
    UNION {{[gold |-> g, pred |-> p] :
                g \in SeqsOfLen(SpanEntities, j), p \in SeqsOfLen(SpanEntities, k - j)} :
           j \in 0..k}

\* corpora of np parts holding at most k entities
RECURSIVE CorporaWith(_, _)
CorporaWith(np, k) ==
    IF np = 0 THEN {<<>>}
    ELSE UNION {{<<pt>> \o rest : pt \in PartsWith(j), rest \in CorporaWith(np - 1, k - j)} :
                j \in 0..k}

Corpora(k) == UNION {CorporaWith(np, k) : np \in 0..MaxParts}

\* the corpora of C whose entities all have subclass "X"
OneSubclass(C) ==
    {c \in C :
        \A p \in 1..Len(c) :
            /\ \A k \in 1..Len(c[p].gold) : c[p].gold[k].subclass = "X"
            /\ \A k \in 1..Len(c[p].pred) : c[p].pred[k].subclass = "X"}

RelationTexts == {<<"A", "b">>, <<"a", "b">>, <<"a", "B">>, <<"c", "d">>}

\* get_unique_relations / get_unique_predicted_relations: no relation twice
UniqueSeqs(n) ==
    {q \in SeqsOfLen(RelationTexts, n) : \A i, j \in 1..n : q[i] = q[j] => i = j}

DocsWith(k) ==
    UNION {{[actual |-> a, predicted |-> p] : a \in UniqueSeqs(j), p \in UniqueSeqs(k - j)} :
           j \in 0..k}

RECURSIVE RelCorporaWith(_, _)
RelCorporaWith(nd, k) ==
    IF nd = 0 THEN {<<>>}
    ELSE UNION {{<<d>> \o rest : d \in DocsWith(j), rest \in RelCorporaWith(nd - 1, k - j)} :
                j \in 0..k}

RelCorpora == UNION {RelCorporaWith(nd, MaxRels) : nd \in 0..MaxDocs}

----------------------------------------------------------------------------
(* Sequential use: one evaluator object, evaluate called up to MaxCalls    *)
(* times on the same dataset.                                              *)

InitMention ==
    /\ evaluator = "MentionLevelEvaluator"
    /\ corpus \in Corpora(MaxSpans)
    /\ strictness \in Strictnesses
    /\ subclass_analysis \in BOOLEAN
    /\ equality_operator \in EqualityModes
    /\ results = <<>>
    /\ rel_corpus = <<>>
    /\ match_case = TRUE
    /\ rel_results = <<>>
    /\ call = <<>>

InitRelation ==
    /\ evaluator = "DocumentLevelRelationEvaluator"
    /\ rel_corpus \in RelCorpora
    /\ match_case \in BOOLEAN
    /\ rel_results = <<>>
    /\ corpus = <<>>
    /\ strictness = "exact"
    /\ subclass_analysis = FALSE
    /\ equality_operator = "exact"
    /\ results = <<>>
    /\ call = <<>>

Init == InitMention \/ InitRelation

\* MentionLevelEvaluator.evaluate(dataset), start to end
Evaluate ==
    /\ evaluator = "MentionLevelEvaluator"
    /\ Len(results) < MaxCalls
    /\ LET r == evaluate(corpus, strictness, subclass_analysis, equality_operator)
       IN  results' = Append(results, [flag_before |-> equality_operator, outcome |-> r])
    /\ equality_operator' = FlagAfter(corpus, equality_operator)
    /\ UNCHANGED <<corpus, strictness, subclass_analysis, rel_corpus, match_case,
                   rel_results, evaluator, call>>

\* DocumentLevelRelationEvaluator.evaluate(dataset), start to end
RelEvaluate ==
    /\ evaluator = "DocumentLevelRelationEvaluator"
    /\ Len(rel_results) < MaxCalls
    /\ rel_results' = Append(rel_results, rel_evaluate(rel_corpus, match_case))
    /\ UNCHANGED <<corpus, strictness, subclass_analysis, equality_operator, results,
                   rel_corpus, match_case, evaluator, call>>

Next == Evaluate \/ RelEvaluate

Spec == Init /\ [][Next]_vars

----------------------------------------------------------------------------
(* Concurrent use: two evaluate calls of one evaluator over the same       *)
(* corpus, interleaved at every read (an Entity comparison) and every      *)
(* write of Entity.equality_operator.  Everything else a call does is      *)
(* local to its frame and is folded into the step before it.               *)
(* subclass_analysis is off here.                                          *)

Calls == {1, 2}

\* the locals of evaluate at line 71; tainted is a history variable: some
\* comparison of this call ran in a mode other than the one its pass set
Frame0 == [pc |-> "idle", p |-> 1, i |-> 1, j |-> 1,
           tp |-> 0, fp |-> 0, fn |-> 0, fp_overlap |-> 0, fn_overlap |-> 0,
           overlap_real |-> <<>>, overlap_predicted |-> <<>>,
           tainted |-> FALSE, raised |-> "none", measures |-> <<>>]

\* run the local control flow of frame f up to its next comparison, its
\* next assignment to the flag or its return
RECURSIVE Settle(_)
Settle(f) ==
    IF f.pc = "part" THEN                                      \* lines 81-88
        IF f.p > Len(corpus) THEN [f EXCEPT !.pc = "return"]
        ELSE [f EXCEPT !.pc = "line94", !.overlap_real = <<>>,
                       !.overlap_predicted = <<>>]
    ELSE IF f.pc = "pass1" THEN                                \* lines 95-103
        IF f.i > Len(corpus[f.p].pred)
        THEN Settle([f EXCEPT !.pc = "pass1b", !.i = 1, !.j = 1])
        ELSE IF f.j > Len(corpus[f.p].gold)
        THEN Settle([f EXCEPT !.fp = @ + 1, !.i = @ + 1, !.j = 1])
        ELSE f
    ELSE IF f.pc = "pass1b" THEN                               \* lines 105-109
        IF f.i > Len(corpus[f.p].gold)
        THEN [f EXCEPT !.pc = "line111", !.i = 1, !.j = 1]
        ELSE IF f.j > Len(corpus[f.p].pred)
        THEN Settle([f EXCEPT !.fn = @ + 1, !.i = @ + 1, !.j = 1])
        ELSE f
    ELSE IF f.pc = "pass2" THEN                                \* lines 112-116
        IF f.i > Len(corpus[f.p].gold)
        THEN [f EXCEPT !.pc = "line122", !.i = 1, !.j = 1]
        ELSE IF f.j > Len(corpus[f.p].pred)
        THEN Settle([f EXCEPT !.i = @ + 1, !.j = 1])
        ELSE f
    ELSE IF f.pc = "pass3p" THEN                               \* line 123
        IF f.i > Len(corpus[f.p].pred)
        THEN Settle([f EXCEPT !.pc = "pass3g", !.i = 1, !.j = 1])
        ELSE IF f.j > Len(f.overlap_predicted)
        THEN Settle([f EXCEPT !.i = @ + 1, !.j = 1])
        ELSE IF f.overlap_predicted[f.j] = f.i                 \* the same object
        THEN Settle([f EXCEPT !.fp_overlap = @ + 1, !.i = @ + 1, !.j = 1])
        ELSE f
    ELSE IF f.pc = "pass3g" THEN                               \* line 124
        IF f.i > Len(corpus[f.p].gold)
        THEN Settle([f EXCEPT !.pc = "part", !.p = @ + 1, !.i = 1, !.j = 1])
        ELSE IF f.j > Len(f.overlap_real)
        THEN Settle([f EXCEPT !.i = @ + 1, !.j = 1])
        ELSE IF f.overlap_real[f.j] = f.i                      \* the same object
        THEN Settle([f EXCEPT !.fn_overlap = @ + 1, !.i = @ + 1, !.j = 1])
        ELSE f
    ELSE f

\* the comparison a frame performs, under the flag as it is now
Taint(f, expected) ==
    [f EXCEPT !.tainted = @ \/ equality_operator # expected]

ConcUnchanged ==
    UNCHANGED <<corpus, strictness, subclass_analysis, results, rel_corpus,
                match_case, rel_results, evaluator>>

\* evaluate is entered: line 71
Start(c) ==
    /\ call[c].pc = "idle"
    /\ call' = [call EXCEPT ![c] = Settle([Frame0 EXCEPT !.pc = "part"])]
    /\ UNCHANGED equality_operator
    /\ ConcUnchanged

\* line 94: Entity.equality_operator = 'exact'
Line94(c) ==
    /\ call[c].pc = "line94"
    /\ equality_operator' = ExactPassMode(equality_operator)
    /\ call' = [call EXCEPT ![c] = Settle([@ EXCEPT !.pc = "pass1", !.i = 1, !.j = 1])]
    /\ ConcUnchanged

\* line 96: one __eq__ of "ann in part.annotations"
ComparePredicted(c) ==
    LET f == call[c]
        part == corpus[f.p]
    IN  /\ f.pc = "pass1"
        /\ call' = [call EXCEPT ![c] =
               IF EntityEq(equality_operator, part.gold[f.j], part.pred[f.i])
               THEN Settle([Taint(f, "exact") EXCEPT !.tp = @ + 1, !.i = @ + 1, !.j = 1])
               ELSE Settle([Taint(f, "exact") EXCEPT !.j = @ + 1])]
        /\ UNCHANGED equality_operator
        /\ ConcUnchanged

\* line 106: one __eq__ of "ann not in part.predicted_annotations"
CompareGold(c) ==
    LET f == call[c]
        part == corpus[f.p]
    IN  /\ f.pc = "pass1b"
        /\ call' = [call EXCEPT ![c] =
               IF EntityEq(equality_operator, part.pred[f.j], part.gold[f.i])
               THEN Settle([Taint(f, "exact") EXCEPT !.i = @ + 1, !.j = 1])
               ELSE Settle([Taint(f, "exact") EXCEPT !.j = @ + 1])]
        /\ UNCHANGED equality_operator
        /\ ConcUnchanged

\* line 111: Entity.equality_operator = 'overlapping'
Line111(c) ==
    /\ call[c].pc = "line111"
    /\ equality_operator' = OverlapPassMode(equality_operator)
    /\ call' = [call EXCEPT ![c] = Settle([@ EXCEPT !.pc = "pass2", !.i = 1, !.j = 1])]
    /\ ConcUnchanged

\* lines 114-116: ann_a == ann_b
CompareOverlap(c) ==
    LET f == call[c]
        part == corpus[f.p]
    IN  /\ f.pc = "pass2"
        /\ call' = [call EXCEPT ![c] =
               IF EntityEq(equality_operator, part.gold[f.i], part.pred[f.j])
               THEN Settle([Taint(f, "overlapping") EXCEPT
                            !.overlap_real = Append(@, f.i),
                            !.overlap_predicted = Append(@, f.j),
                            !.j = @ + 1])
               ELSE Settle([Taint(f, "overlapping") EXCEPT !.j = @ + 1])]
        /\ UNCHANGED equality_operator
        /\ ConcUnchanged

\* line 122: Entity.equality_operator = 'exact'
Line122(c) ==
    /\ call[c].pc = "line122"
    /\ equality_operator' = ExclusivityPassMode(equality_operator)
    /\ call' = [call EXCEPT ![c] = Settle([@ EXCEPT !.pc = "pass3p", !.i = 1, !.j = 1])]
    /\ ConcUnchanged

\* line 123: one __eq__ of "ann in overlap_predicted"
CompareFpOverlap(c) ==
    LET f == call[c]
        part == corpus[f.p]
    IN  /\ f.pc = "pass3p"
        /\ call' = [call EXCEPT ![c] =
               IF EntityEq(equality_operator, part.pred[f.overlap_predicted[f.j]],
                           part.pred[f.i])
               THEN Settle([Taint(f, "exact") EXCEPT
                            !.fp_overlap = @ + 1, !.i = @ + 1, !.j = 1])
               ELSE Settle([Taint(f, "exact") EXCEPT !.j = @ + 1])]
        /\ UNCHANGED equality_operator
        /\ ConcUnchanged

\* line 124: one __eq__ of "ann in overlap_real"
CompareFnOverlap(c) ==
    LET f == call[c]
        part == corpus[f.p]
    IN  /\ f.pc = "pass3g"
        /\ call' = [call EXCEPT ![c] =
               IF EntityEq(equality_operator, part.gold[f.overlap_real[f.j]],
                           part.gold[f.i])
               THEN Settle([Taint(f, "exact") EXCEPT
                            !.fn_overlap = @ + 1, !.i = @ + 1, !.j = 1])
               ELSE Settle([Taint(f, "exact") EXCEPT !.j = @ + 1])]
        /\ UNCHANGED equality_operator
        /\ ConcUnchanged

\* line 144: return self.__calc_measures(tp, fp, fn, fp_overlap, fn_overlap)
Return(c) ==
    LET f == call[c]
        m == calc_measures(strictness, f.tp, f.fp, f.fn, f.fp_overlap, f.fn_overlap)
    IN  /\ f.pc = "return"
        /\ call' = [call EXCEPT ![c] =
               [f EXCEPT !.pc = "done", !.raised = m.raised, !.measures = m.value]]
        /\ UNCHANGED equality_operator
        /\ ConcUnchanged

\* corpora of the concurrent runs: subclass_analysis is off, and ann.subclass
\* is read only under "if self.subclass_analysis"
ConcCorpora ==
    OneSubclass(UNION {CorporaWith(np, MaxConcSpans) : np \in 0..MaxConcParts})

InitConc ==
    /\ evaluator = "MentionLevelEvaluator"
    /\ corpus \in ConcCorpora
    /\ strictness \in Strictnesses
    /\ subclass_analysis = FALSE
    /\ equality_operator \in EqualityModes
    /\ results = <<>>
    /\ rel_corpus = <<>>
    /\ match_case = TRUE
    /\ rel_results = <<>>
    /\ call = [c \in Calls |-> Frame0]

NextConc ==
    \E c \in Calls :
        \/ Start(c)
        \/ Line94(c)
        \/ ComparePredicted(c)
        \/ CompareGold(c)
        \/ Line111(c)
        \/ CompareOverlap(c)
        \/ Line122(c)
        \/ CompareFpOverlap(c)
        \/ CompareFnOverlap(c)
        \/ Return(c)

SpecConc == InitConc /\ [][NextConc]_vars

----------------------------------------------------------------------------
(* What the claims speak about *)

ValidStrictness == {"exact", "overlapping", "half_overlapping"}

RECURSIVE SumSeq(_)
SumSeq(q) == IF Len(q) = 0 THEN 0 ELSE Head(q) + SumSeq(Tail(q))

RECURSIVE SumSet(_, _)
SumSet(f, S) ==
    IF S = {} THEN 0
    ELSE LET x == CHOOSE y \in S : TRUE IN f[x] + SumSet(f, S \ {x})

NumPredicted == SumSeq([p \in 1..Len(corpus) |-> Len(corpus[p].pred)])
NumGold == SumSeq([p \in 1..Len(corpus) |-> Len(corpus[p].gold)])

IsNaN(x) == x.kind = "nan"
InUnitOrNaN(x) == IsNaN(x) \/ (x.kind = "num" /\ 0 <= x.n /\ x.n <= x.d)
Is(x, n, d) == x.kind = "num" /\ x.n = n /\ x.d = d

\* the calls that returned
Returned == {k \in 1..Len(results) : results[k].outcome.raised = "none"}
M(k) == results[k].outcome.measures[1]

\* a predicted (gold) entity that is the exact match of some gold
\* (predicted) entity of its part, and one that overlaps some
PredMatched(part, i) == \E g \in 1..Len(part.gold) : ExactMatch(part.gold[g], part.pred[i])
GoldMatched(part, g) == \E i \in 1..Len(part.pred) : ExactMatch(part.pred[i], part.gold[g])
PredOverlapped(part, i) == \E g \in 1..Len(part.gold) : Overlaps(part.gold[g], part.pred[i])
GoldOverlapped(part, g) == \E i \in 1..Len(part.pred) : Overlaps(part.gold[g], part.pred[i])

\* the counts before the strictness adjustment of lines 158-159 / 164-165
RawFp(k) == IF strictness = "exact" THEN M(k).fp ELSE M(k).fp + M(k).fp_overlap
RawFn(k) == IF strictness = "exact" THEN M(k).fn ELSE M(k).fn + M(k).fn_overlap

----------------------------------------------------------------------------
\* C1: for each of the three strictness values the returned precision and
\* recall are NaN or in [0,1], and so is the returned f_measure.
C1_MeasuresInUnitInterval ==
    \A k \in Returned :
        /\ InUnitOrNaN(M(k).precision)
        /\ InUnitOrNaN(M(k).recall)
        /\ InUnitOrNaN(M(k).f_measure)

\* C2: under strictness exact the returned tp + fp is the number of predicted
\* span instances of the corpus and tp + fn the number of gold span instances,
\* duplicates included.
C2_ExactCountsPartitionSpans ==
    strictness = "exact" =>
        \A k \in Returned :
            /\ M(k).tp + M(k).fp = NumPredicted
            /\ M(k).tp + M(k).fn = NumGold

\* C3: fp_overlap counts exactly the predicted spans that overlap a gold span
\* of their part and exactly match none, fn_overlap the gold spans that
\* overlap a predicted span and are exactly matched by none, so that
\* fp_overlap <= fp and fn_overlap <= fn before the strictness adjustment.
C3_OverlapCountsExcludeExactMatches ==
    LET fpo == SumSeq([p \in 1..Len(corpus) |->
                   Cardinality({i \in 1..Len(corpus[p].pred) :
                        PredOverlapped(corpus[p], i) /\ ~PredMatched(corpus[p], i)})])
        fno == SumSeq([p \in 1..Len(corpus) |->
                   Cardinality({g \in 1..Len(corpus[p].gold) :
                        GoldOverlapped(corpus[p], g) /\ ~GoldMatched(corpus[p], g)})])
    IN  \A k \in Returned :
            /\ M(k).fp_overlap = fpo
            /\ M(k).fn_overlap = fno
            /\ M(k).fp_overlap <= RawFp(k)
            /\ M(k).fn_overlap <= RawFn(k)

\* C4: the relations are case-folded before comparison exactly when
\* match_case is false: then a predicted relation that differs from a gold
\* relation of its document only in letter case is a tp; with match_case true
\* it is an fp and the gold relation an fn.
C4_CaseFoldedIffNotMatchCase ==
    LET Same(x, y) == IF match_case THEN x = y ELSE lower(x) = lower(y)
        Tp(d) == {i \in 1..Len(d.predicted) :
                     \E a \in 1..Len(d.actual) : Same(d.predicted[i], d.actual[a])}
        Fn(d) == {a \in 1..Len(d.actual) :
                     ~\E i \in 1..Len(d.predicted) : Same(d.predicted[i], d.actual[a])}
        tp == SumSeq([k \in 1..Len(rel_corpus) |-> Cardinality(Tp(rel_corpus[k]))])
        fp == SumSeq([k \in 1..Len(rel_corpus) |->
                         Len(rel_corpus[k].predicted) - Cardinality(Tp(rel_corpus[k]))])
        fn == SumSeq([k \in 1..Len(rel_corpus) |-> Cardinality(Fn(rel_corpus[k]))])
    IN  \A k \in 1..Len(rel_results) :
            /\ rel_results[k].raised = "none"
            /\ rel_results[k].value[1].tp = tp
            /\ rel_results[k].value[1].fp = fp
            /\ rel_results[k].value[1].fn = fn

\* C5: with a strictness other than exact, overlapping or half_overlapping,
\* evaluate raises the configuration error and returns nothing, neither the
\* aggregate nor a per-subclass result, for every corpus and both values of
\* subclass_analysis.
C5_InvalidStrictnessRaises ==
    strictness \notin ValidStrictness =>
        \A k \in 1..Len(results) :
            /\ results[k].outcome.raised = "ValueError"
            /\ results[k].outcome.measures = <<>>
            /\ results[k].outcome.subclass_counts = <<>>

C5_Witness ==
    /\ strictness \notin ValidStrictness
    /\ subclass_analysis
    /\ NumGold > 0 /\ NumPredicted > 0
    /\ Len(results) > 0
    /\ results[1].outcome.raised = "ValueError"

\* C6: with a valid strictness no evaluator fails on a zero denominator: the
\* ratio is NaN, a NaN precision or recall (and precision + recall = 0) makes
\* f_measure NaN; one gold span and no prediction under exact gives tp = 0,
\* fp = 0, fn = 1, precision NaN, recall 0, f_measure NaN.
C6_ZeroDenominatorGivesNaN ==
    /\ strictness \in ValidStrictness =>
         \A k \in 1..Len(results) :
            /\ results[k].outcome.raised = "none"
            /\ M(k).tp + RawFp(k) + (RawFn(k) - M(k).fn) = 0
                    => IsNaN(M(k).precision)
            /\ M(k).tp + RawFn(k) + (RawFp(k) - M(k).fp) = 0
                    => IsNaN(M(k).recall)
            /\ IsNaN(M(k).precision) \/ IsNaN(M(k).recall) => IsNaN(M(k).f_measure)
            /\ Is(M(k).precision, 0, 1) /\ Is(M(k).recall, 0, 1) => IsNaN(M(k).f_measure)
            /\ strictness = "exact" /\ NumGold = 1 /\ NumPredicted = 0
                    => /\ M(k).tp = 0 /\ M(k).fp = 0 /\ M(k).fn = 1
                       /\ IsNaN(M(k).precision)
                       /\ Is(M(k).recall, 0, 1)
                       /\ IsNaN(M(k).f_measure)
    /\ \A k \in 1..Len(rel_results) :
            /\ rel_results[k].raised = "none"
            /\ LET v == rel_results[k].value[1]
               IN  /\ v.tp + v.fp = 0 => IsNaN(v.precision)
                   /\ v.tp + v.fn = 0 => IsNaN(v.recall)
                   /\ IsNaN(v.precision) \/ IsNaN(v.recall) => IsNaN(v.f_measure)
                   /\ Is(v.precision, 0, 1) /\ Is(v.recall, 0, 1) => IsNaN(v.f_measure)

C6_Witness ==
    /\ strictness = "exact"
    /\ NumGold = 1 /\ NumPredicted = 0
    /\ Len(results) > 0
    /\ results[1].outcome.raised = "none"
    /\ IsNaN(results[1].outcome.measures[1].precision)
    /\ IsNaN(results[1].outcome.measures[1].f_measure)

\* the corpora of C7: at least one span, no predicted span is the exact match
\* of a gold span of its part, every predicted span overlaps a gold span of
\* its part and every gold span a predicted one
OnlyPartialOverlaps ==
    /\ NumGold + NumPredicted > 0
    /\ \A p \in 1..Len(corpus) :
        /\ \A i \in 1..Len(corpus[p].pred) :
                ~PredMatched(corpus[p], i) /\ PredOverlapped(corpus[p], i)
        /\ \A g \in 1..Len(corpus[p].gold) : GoldOverlapped(corpus[p], g)

\* C7: on such a corpus the exact pass counts every predicted span fp and
\* every gold span fn, fp_overlap = fp and fn_overlap = fn, the adjusted fp
\* and fn are 0, precision = recall = 1 under overlapping and 1/2 under
\* half_overlapping.
C7_PartialOverlapsOnly ==
    OnlyPartialOverlaps =>
        \A k \in Returned :
            /\ M(k).tp = 0
            /\ RawFp(k) = NumPredicted /\ RawFn(k) = NumGold
            /\ M(k).fp_overlap = NumPredicted /\ M(k).fn_overlap = NumGold
            /\ strictness # "exact" => M(k).fp = 0 /\ M(k).fn = 0
            /\ strictness = "exact" => M(k).fp = NumPredicted /\ M(k).fn = NumGold
            /\ strictness = "overlapping"
                    => Is(M(k).precision, 1, 1) /\ Is(M(k).recall, 1, 1)
            /\ strictness = "half_overlapping"
                    => Is(M(k).precision, 1, 2) /\ Is(M(k).recall, 1, 2)

C7_Witness ==
    /\ OnlyPartialOverlaps
    /\ strictness = "half_overlapping"
    /\ NumGold + NumPredicted > 2
    /\ Len(results) > 0
    /\ results[1].outcome.raised = "none"
    /\ Is(results[1].outcome.measures[1].precision, 1, 2)

\* C8: with subclass_analysis and strictness exact, the per-subclass tp, fp
\* and fn sum over the discovered subclasses to the aggregate tp, fp and fn;
\* a tp or fp goes to the subclass of the predicted span, an fn to the
\* subclass of the gold span.
C8_SubclassCountsSumToAggregate ==
    subclass_analysis /\ strictness = "exact" =>
        \A k \in 1..Len(results) :
            /\ results[k].outcome.raised = "none"
            /\ Len(results[k].outcome.subclass_counts) = 1
            /\ LET sub == results[k].outcome.subclass_counts[1]
                   Of(field) == [sc \in DOMAIN sub |-> sub[sc][field]]
                   PredOf(sc, matched) ==
                       SumSeq([p \in 1..Len(corpus) |->
                           Cardinality({i \in 1..Len(corpus[p].pred) :
                               /\ corpus[p].pred[i].subclass = sc
                               /\ PredMatched(corpus[p], i) = matched})])
                   GoldMissed(sc) ==
                       SumSeq([p \in 1..Len(corpus) |->
                           Cardinality({g \in 1..Len(corpus[p].gold) :
                               /\ corpus[p].gold[g].subclass = sc
                               /\ ~GoldMatched(corpus[p], g)})])
               IN  /\ SumSet(Of("tp"), DOMAIN sub) = M(k).tp
                   /\ SumSet(Of("fp"), DOMAIN sub) = M(k).fp
                   /\ SumSet(Of("fn"), DOMAIN sub) = M(k).fn
                   /\ \A sc \in DOMAIN sub :
                        /\ sub[sc].tp = PredOf(sc, TRUE)
                        /\ sub[sc].fp = PredOf(sc, FALSE)
                        /\ sub[sc].fn = GoldMissed(sc)

C8_Witness ==
    /\ subclass_analysis /\ strictness = "exact"
    /\ Len(results) > 0
    /\ results[1].outcome.raised = "none"
    /\ Len(results[1].outcome.subclass_counts) = 1
    /\ DOMAIN results[1].outcome.subclass_counts[1] = Subclasses
    /\ \A sc \in Subclasses :
            LET k == results[1].outcome.subclass_counts[1][sc]
            IN  k.tp + k.fp + k.fn > 0
    /\ results[1].outcome.measures[1].tp > 0
    /\ results[1].outcome.measures[1].fn > 0

\* C9: two evaluate calls in sequence on the same corpus, with the same
\* strictness and subclass_analysis, give identical counts and measures,
\* whatever the comparison-mode flag holds before the first call and whatever
\* the first call leaves in it.
C9_EvaluateTwiceSameResult ==
    \A k, l \in 1..Len(results) :
        /\ results[k].outcome.raised = results[l].outcome.raised
        /\ results[k].outcome.measures = results[l].outcome.measures
        /\ results[k].outcome.subclass_counts = results[l].outcome.subclass_counts

C9_Witness ==
    /\ Len(results) >= 2
    /\ results[1].flag_before = "overlapping"
    /\ results[2].flag_before = "exact"
    /\ results[1].outcome.raised = "none"
    /\ results[1].outcome.measures[1].tp > 0
    /\ results[1].outcome.measures[1].fp > 0

\* what a call returns when it runs alone on the corpus
Alone == evaluate(corpus, strictness, subclass_analysis, "exact")

Diverged(c) ==
    /\ call[c].pc = "done"
    /\ \/ call[c].raised # Alone.raised
       \/ call[c].measures # Alone.measures

\* C10: two interleaved evaluate calls over one corpus are unsafe because of
\* the shared flag: a call that returns other counts than it returns alone
\* has made a comparison in the mode the other call set, which happens only
\* once the other call has been entered (the witness is a call that returned
\* such counts).
C10_DivergenceOnlyFromSharedFlag ==
    \A c \in Calls :
        /\ Diverged(c) => call[c].tainted
        /\ call[c].tainted => \E o \in Calls \ {c} : call[o].pc # "idle"

C10_Witness ==
    \E c \in Calls :
        /\ Diverged(c)
        /\ call[c].raised = "none"
        /\ call[c].measures[1].tp # Alone.measures[1].tp

====
